---- MODULE Spec2Model ----
(***************************************************************************)
(* A model of the two artwork generators of catalog-generate-assets:       *)
(*   canvas_generator.py   image -> 720x1280 glitch loop (GIF, MP4)        *)
(*   v7_album_artwork.py   audio -> identicon over a spectrogram           *)
(*                                                                         *)
(* A frame is a record [size |-> <<width, height>>, bands |-> channels,    *)
(* px |-> rows], rows being a sequence of `height' rows and a row a        *)
(* sequence of width*bands samples 0..255 (numpy's array of the image).    *)
(* Python's 0-based row y is px[y + 1].                                    *)
(***************************************************************************)
EXTENDS Integers, Sequences, FiniteSets, TLC

\* ---------------------------------------------------------------- bounds

\* Largest image width (columns) of a frame handed to apply_smearing.
MaxW == 2
\* Frame heights handed to apply_smearing run from 0 to MIN_STREAK + ExtraH.
ExtraH == 1
\* Strengths handed to apply_smearing run from MIN_STREAK - 2 to MIN_STREAK + ExtraS.
ExtraS == 1
\* Longest frame sequence and largest transition count handed to
\* create_crossfade_frames.
MaxL == 2
MaxK == 1
\* Image sizes handed to create_spotify_canvas include 1..MaxDim squared.
MaxDim == 10
\* Audio durations, in seconds, run from 1 to MaxDuration.
MaxDuration == 170
\* Rendered images handed to the square crop are up to MaxSide wide and high.
MaxSide == 12

\* ------------------------------------------------- canvas_generator.py

\* random.randint(10, strength): the shortest streak.
MIN_STREAK == 10

Min(a, b) == IF a < b THEN a ELSE b
Max(a, b) == IF a > b THEN a ELSE b

\* The sequence <<f[1], ..., f[n]>> of a function f on 1..n.
RECURSIVE Tup(_, _)
Tup(f, n) == IF n = 0 THEN <<>> ELSE Append(Tup(f, n - 1), f[n])

\* The union of a set of sets.
Flatten(SS) == UNION SS

\* SmearBlend with the row above taken as white: the streak fades to white.
SmearBlendToWhite(a, b, d, s) ==
    LET num == a * (s - d) + 255 * d
    IN  {num \div s}

\* int(x) / the uint8 cast of the float a*alpha + b*(1-alpha), with
\* alpha = 1.0 - d/s.  The exact value is num/s, num = a*(s-d) + b*d.
\* With d = 0 (alpha = 1.0) or a = b = 0 every float operation is exact.
\* Otherwise the doubles round: when num/s is not an integer the error is
\* far below the distance to the next integer and the cast gives the floor;
\* when num/s is an integer q the sum lands on q or just below it, and the
\* cast gives q or q - 1 (255*0.9 + 255*0.1 is 254.99999999999997).
SmearBlend(a, b, d, s) ==
    LET num == a * (s - d) + b * d
        q   == num \div s
    IN  IF d = 0 \/ (a = 0 /\ b = 0) THEN {q}
        ELSE IF num % s = 0 THEN {q - 1, q}
        ELSE {q}

\* img_array[y] * alpha + img_array[y-1] * (1-alpha), elementwise over the
\* whole row (every column and channel), assigned back into the uint8 array:
\* the set of rows the assignment can leave.
RECURSIVE BlendRow(_, _, _, _)
BlendRow(cur, prev, d, s) ==
    IF cur = <<>> THEN {<<>>}
    ELSE { <<v>> \o rest : v \in SmearBlend(Head(cur), Head(prev), d, s),
                           rest \in BlendRow(Tail(cur), Tail(prev), d, s) }

\* for y in range(y_start, min(y_start + streak_height, height)), from row y
\* on: the arrays the loop can leave.  Row y - 1 is read after its own update.
RECURSIVE Streak(_, _, _, _, _)
Streak(arr, y, y_start, streak_height, height) ==
    IF y >= Min(y_start + streak_height, height) THEN {arr}
    ELSE IF y > 0
         THEN Flatten({ Streak([arr EXCEPT ![y + 1] = row], y + 1,
                               y_start, streak_height, height) :
                        row \in BlendRow(arr[y + 1], arr[y],
                                         y - y_start, streak_height) })
         ELSE Streak(arr, y + 1, y_start, streak_height, height)

\* The outcome of the column loop from column x on: the array when the loop
\* ran to its end, or an exception (a random.randint call got an empty range:
\* strength < 10, or height < streak_height).
Returned(arr) == [raised |-> FALSE, arr |-> arr]
Raised == [raised |-> TRUE, arr |-> <<>>]

RECURSIVE SmearColumns(_, _, _, _, _)
SmearColumns(arr, x, width, height, strength) ==
    IF x >= width THEN {Returned(arr)}
    ELSE \* random.random() >= 0.1: the column is skipped
         SmearColumns(arr, x + 1, width, height, strength)
         \cup
         \* random.random() < 0.1
         (IF strength < MIN_STREAK THEN {Raised}
          ELSE Flatten({
                 IF height - streak_height < 0 THEN {Raised}
                 ELSE Flatten({
                        Flatten({ SmearColumns(a2, x + 1, width, height, strength) :
                                  a2 \in Streak(arr, y_start, y_start,
                                                streak_height, height) }) :
                        y_start \in 0..(height - streak_height) }) :
                 streak_height \in MIN_STREAK..strength }))

\* Whether the frame's samples are carried: px holds its `height' rows.  The
\* 720x1280 frames of the canvas pipeline are carried by size and mode alone
\* (px = <<>>).
Carried(image) == Len(image.px) = image.size[2]

\* apply_smearing(image, strength): the set of images it can return.  An
\* exception anywhere returns the image it was given; otherwise the array,
\* a copy of the image's samples, is turned back into an image.  Either way
\* the result has the size and mode of the image, which is all that is said
\* of a frame whose samples are not carried.
apply_smearing(image, strength) ==
    LET width  == image.size[1]
        height == image.size[2]
    IN  IF ~Carried(image) THEN {image}
        ELSE { IF r.raised THEN image ELSE [image EXCEPT !.px = r.arr] :
               r \in SmearColumns(image.px, 0, width, height, strength) }

\* blend_images(img1, img2, alpha) with alpha = num/den: Image.blend's
\* out = img1 * (1 - alpha) + img2 * alpha on every sample, cut to a whole
\* number.  Both images have the same size and mode.
blend_images(img1, img2, num, den) ==
    [img1 EXCEPT !.px =
        Tup([y \in 1..Len(img1.px) |->
                Tup([i \in 1..Len(img1.px[y]) |->
                        (img1.px[y][i] * (den - num) + img2.px[y][i] * num)
                            \div den],
                    Len(img1.px[y]))],
            Len(img1.px))]

\* strength of the smear of an input frame, and of a transition frame.
FRAME_STRENGTH == 40
TRANSITION_STRENGTH == 30

\* Transitions with the loop running one step too far (range(k + 1)).
RECURSIVE TransitionsInclusive(_, _, _, _)
TransitionsInclusive(current_frame, next_frame, j, num_transition_frames) ==
    IF j > num_transition_frames THEN {<<>>}
    ELSE { <<transition_frame>> \o rest :
           transition_frame \in
               apply_smearing(blend_images(current_frame, next_frame,
                                           j + 1, num_transition_frames + 1),
                              TRANSITION_STRENGTH),
           rest \in TransitionsInclusive(current_frame, next_frame, j + 1,
                                         num_transition_frames) }

\* for j in range(num_transition_frames), from j on: the transition frames
\* appended after current_frame.
RECURSIVE Transitions(_, _, _, _)
Transitions(current_frame, next_frame, j, num_transition_frames) ==
    IF j >= num_transition_frames THEN {<<>>}
    ELSE { <<transition_frame>> \o rest :
           transition_frame \in
               apply_smearing(blend_images(current_frame, next_frame,
                                           j + 1, num_transition_frames + 1),
                              TRANSITION_STRENGTH),
           rest \in Transitions(current_frame, next_frame, j + 1,
                                num_transition_frames) }

\* NextIndex that stops at the last frame instead of wrapping to the first.
NextIndexClamped(i, n) == Min(i + 1, n - 1)

\* The index of next_frame for frame i (0-based): (i + 1) % len(glitch_frames).
NextIndex(i, n) == (i + 1) % n

\* One pass of `for i in range(len(glitch_frames))': the frames pass i appends
\* to smoothed_frames, the smeared frame i and its transition frames.
CrossfadeIteration(glitch_frames, i, num_transition_frames) ==
    Flatten({
        { <<current_frame>> \o trans :
          trans \in Transitions(current_frame, next_frame, 0,
                                num_transition_frames) } :
        current_frame \in
            apply_smearing(glitch_frames[i + 1], FRAME_STRENGTH),
        next_frame \in
            apply_smearing(glitch_frames[NextIndex(i, Len(glitch_frames)) + 1],
                           FRAME_STRENGTH) })

\* The passes from i on: what they append to smoothed_frames.
RECURSIVE CrossfadeFrom(_, _, _)
CrossfadeFrom(glitch_frames, i, num_transition_frames) ==
    IF i >= Len(glitch_frames) THEN {<<>>}
    ELSE { piece \o rest :
           piece \in CrossfadeIteration(glitch_frames, i,
                                        num_transition_frames),
           rest \in CrossfadeFrom(glitch_frames, i + 1,
                                  num_transition_frames) }

\* create_crossfade_frames(glitch_frames, num_transition_frames): the set of
\* sequences it can return.
create_crossfade_frames(glitch_frames, num_transition_frames) ==
    CrossfadeFrom(glitch_frames, 0, num_transition_frames)

\* ---------------------------------------------------------------- frames

\* A frame whose rows all hold the sample v.
Flat(w, h, c, v) ==
    [size |-> <<w, h>>, bands |-> c,
     px |-> Tup([y \in 1..h |-> Tup([i \in 1..(w * c) |-> v], w * c)], h)]

\* A frame whose samples change from row to row and from sample to sample.
Ramp(w, h, c, base) ==
    [size |-> <<w, h>>, bands |-> c,
     px |-> Tup([y \in 1..h |->
                    Tup([i \in 1..(w * c) |-> (base + 37 * y + 11 * i) % 256],
                        w * c)], h)]

IsBlack(f) == \A y \in 1..Len(f.px) : \A i \in 1..Len(f.px[y]) : f.px[y][i] = 0

WellFormed(f) ==
    /\ Len(f.px) = f.size[2]
    /\ \A y \in 1..Len(f.px) : Len(f.px[y]) = f.size[1] * f.bands

SameShape(f, g) ==
    /\ f.size = g.size
    /\ f.bands = g.bands

\* A frame that is black but for its two top rows, which hold v0 and v1.
Spot(w, h, c, v0, v1) ==
    [size |-> <<w, h>>, bands |-> c,
     px |-> Tup([y \in 1..h |->
                    Tup([i \in 1..(w * c) |->
                            IF y = 1 THEN v0 ELSE IF y = 2 THEN v1 ELSE 0],
                        w * c)], h)]

\* Frames handed to create_crossfade_frames: of one size and mode, just tall
\* enough for the shortest streak, so that a smear either drags the top rows
\* down or raises.  Their samples are such that no blend of the crossfade
\* lands on a whole number, where the rounding of the floats would decide.
XfPalette ==
    { Spot(1, MIN_STREAK, 1, 12, 9), Spot(1, MIN_STREAK, 1, 18, 9) }

\* The sequences of n elements of S.
RECURSIVE SeqsOf(_, _)
SeqsOf(S, n) ==
    IF n = 0 THEN {<<>>}
    ELSE { Append(q, x) : q \in SeqsOf(S, n - 1), x \in S }

XfInputs == UNION { SeqsOf(XfPalette, n) : n \in 0..MaxL }

SmearHeights == 0..(MIN_STREAK + ExtraH)
SmearStrengths == (MIN_STREAK - 2)..(MIN_STREAK + ExtraS)

SmearInputs ==
    { Flat(w, h, c, 0) : w \in 0..MaxW, h \in SmearHeights, c \in {1, 3} }
    \cup { Flat(1, h, 1, 255) : h \in SmearHeights }
    \cup { Ramp(1, h, 1, 5) : h \in SmearHeights }

\* ------------------------------------------ create_spotify_canvas: sizes

TARGET_WIDTH == 720
TARGET_HEIGHT == 1280
FRAMES == 24
TRANSITION_FRAMES == 3
TOTAL_DURATION == 8000

\* h with its factors of two taken out.
RECURSIVE OddPart(_)
OddPart(h) == IF h % 2 = 0 THEN OddPart(h \div 2) ELSE h

\* Whether the float w / h is the exact quotient: w/h is a whole number over
\* a power of two (image sizes are far below 2^53).
ExactRatio(w, h) == w % OddPart(h) = 0

\* int() of the float that stands for num/den, where the float holds a
\* rounded aspect ratio unless `exact'.  When num/den is not a whole number
\* the rounding error is far below the distance to the next one and int()
\* gives the floor; when it is a whole number q and the ratio was rounded,
\* the float is q or just below it and int() gives q or q - 1
\* (int(720 / (3 / 17)) is 4079, not 4080).
IntOfFloat(num, den, exact) ==
    LET q == num \div den
    IN  IF exact \/ num % den # 0 THEN {q} ELSE {q - 1, q}

\* AspectFit with the comparison of the aspect ratios turned around.
AspectFitSwapped(w, h) ==
    IF w * TARGET_HEIGHT < TARGET_WIDTH * h
    THEN { <<nw, TARGET_HEIGHT>> :
           nw \in IntOfFloat(TARGET_HEIGHT * w, h, ExactRatio(w, h)) }
    ELSE { <<TARGET_WIDTH, nh>> :
           nh \in IntOfFloat(TARGET_WIDTH * h, w, ExactRatio(w, h)) }

\* The (new_width, new_height) the image of size w x h is resized to.
\* original_aspect > canvas_aspect compares the float w/h with 0.5625, which
\* is w * 1280 > 720 * h for sizes far below 2^26.
AspectFit(w, h) ==
    IF w * TARGET_HEIGHT > TARGET_WIDTH * h
    THEN \* new_height = TARGET_HEIGHT; new_width = int(new_height * original_aspect)
         { <<nw, TARGET_HEIGHT>> :
           nw \in IntOfFloat(TARGET_HEIGHT * w, h, ExactRatio(w, h)) }
    ELSE \* new_width = TARGET_WIDTH; new_height = int(new_width / original_aspect)
         { <<TARGET_WIDTH, nh>> :
           nh \in IntOfFloat(TARGET_WIDTH * h, w, ExactRatio(w, h)) }

\* The crop box (left, top, right, bottom) within the resized image.
CropBox(resized) ==
    LET left == (resized[1] - TARGET_WIDTH) \div 2
        top  == (resized[2] - TARGET_HEIGHT) \div 2
    IN  [left |-> left, top |-> top,
         right |-> left + TARGET_WIDTH, bottom |-> top + TARGET_HEIGHT]

\* Image.crop(box).size
CropSize(box) == <<box.right - box.left, box.bottom - box.top>>

\* DURATION with the original frames left out of the frame count.
FrameDurationTransitionsOnly == TOTAL_DURATION \div (FRAMES * TRANSITION_FRAMES)

\* DURATION = TOTAL_DURATION // (FRAMES + (FRAMES * TRANSITION_FRAMES))
FrameDuration == TOTAL_DURATION \div (FRAMES + (FRAMES * TRANSITION_FRAMES))

\* A frame carried by its size and mode alone.
Opaque(size, c) == [size |-> size, bands |-> c, px |-> <<>>]

\* glitcher.glitch_image(cropped_image, 3.0, ..., gif=True, frames=n): the
\* library's list of n RGB frames of the size of the image.
GlitchImage(size, n) == Tup([i \in 1..n |-> Opaque(size, 3)], n)

\* convert_gif_to_mp4 without its try/except: the failure of the encoder
\* leaves the function as an exception.
ConvertUncaught(ffmpeg) == IF ffmpeg = "ok" THEN "True" ELSE "raise"

\* convert_gif_to_mp4(gif_path, output_path): "True" when ffmpeg ran and
\* exited with 0; a missing ffmpeg (FileNotFoundError) and a non-zero exit
\* (CalledProcessError, check=True) are caught and give "False".
convert_gif_to_mp4(ffmpeg) == IF ffmpeg = "ok" THEN "True" ELSE "False"

\* The value None, and the paths a pipeline returns.
None == <<>>

\* --------------------------------------------------- v7_album_artwork.py

DPI == 100
HEIGHT_INCHES == 10
MIN_WIDTH_INCHES == 10
MAX_WIDTH_INCHES == 40
IDENTICON_SIZE == 5000

\* The size in pixels of the figure rendered for an audio of `duration'
\* seconds: width = min(max(duration / 4, 10), 40) inches, height 10 inches,
\* at 100 dots per inch, saved with no padding around the axes.
RenderSize(duration) ==
    <<Min(Max((duration * DPI) \div 4, MIN_WIDTH_INCHES * DPI),
          MAX_WIDTH_INCHES * DPI),
      HEIGHT_INCHES * DPI>>

\* ForceAspect that never pads.
ForceAspectNever(w, h) == <<w, h>>

\* The size of spec_img after the aspect check: an image narrower than 1.5
\* times its height is pasted at (0, 0) into a transparent image 3 times as
\* wide as it is tall.  w < h * 1.5 is 2 * w < 3 * h.
ForceAspect(w, h) ==
    IF 2 * w < 3 * h THEN <<3 * h, h>> ELSE <<w, h>>

\* The columns [left, right) of the square cut out of an image of the given
\* width and height.
MiddleSquare(width, height) ==
    LET square_size == height
        num_segments == Max(1, width - square_size + 1)
    IN  IF num_segments <= 1
        THEN [left |-> 0, right |-> Min(square_size, width)]
        ELSE [left |-> (width - square_size) \div 2,
              right |-> ((width - square_size) \div 2) + square_size]

\* resize_identicon with the scale left at 1.
ResizeIdenticonUnscaled(size) == size

\* resize_identicon(identicon, scale=0.4): (int(width * 0.4), int(height * 0.4)).
\* int(n * 0.4) is the floor of 2n/5 for every n up to 6000.
resize_identicon(size) == <<(size[1] * 2) \div 5, (size[2] * 2) \div 5>>

\* ----------------------------------------------------------------- state

\* apply_smearing: its arguments, its result, and whether it has returned.
VARIABLES image, strength, smeared, smear_pc

\* create_crossfade_frames: its arguments, the loop index i, the list being
\* built, and whether it is in its loop or has returned.
VARIABLES glitch_frames, num_transition_frames, xf_i, smoothed_frames, xf_pc

\* create_spotify_canvas.  The inputs: whether input_image_path exists, the
\* size of the image, how the run of ffmpeg ends ("ok", "missing", "fails"),
\* and the stage, if any, whose library call raises ("none", "open",
\* "glitch", "save").  The locals, the directories and files on disk, the
\* stages run so far in order, and the returned value.
VARIABLES input_exists, source_size, ffmpeg, fault,
          cv_pc, cv_dirs, cv_files, cv_log,
          DURATION, resized_size, crop_box, cropped_size,
          glitch_imgs, cv_smoothed, gif_duration, cv_result

\* create_album_artwork_v7.  The inputs: whether audio_file_path exists, the
\* duration of the audio in seconds, how the run of npx jdenticon ends ("ok",
\* "fails").  The locals (sizes of the images), the directories and files on
\* disk, the stages run so far, the returned value and the exception that
\* left the function ("" when none did).
VARIABLES audio_exists, duration, npx,
          aw_pc, aw_dirs, aw_files, aw_log,
          raw_size, spec_size, square, spectrogram_size, identicon_size,
          final_size, position, aw_result, aw_raised

smearVars == <<image, strength, smeared, smear_pc>>
xfVars == <<glitch_frames, num_transition_frames, xf_i, smoothed_frames,
           xf_pc>>
canvasVars == <<input_exists, source_size, ffmpeg, fault,
                cv_pc, cv_dirs, cv_files, cv_log,
                DURATION, resized_size, crop_box, cropped_size,
                glitch_imgs, cv_smoothed, gif_duration, cv_result>>
artVars == <<audio_exists, duration, npx,
             aw_pc, aw_dirs, aw_files, aw_log,
             raw_size, spec_size, square, spectrogram_size, identicon_size,
             final_size, position, aw_result, aw_raised>>

vars == <<smearVars, xfVars, canvasVars, artVars>>

\* The functions not called in a specification.
SmearIdle ==
    /\ image = Flat(0, 0, 1, 0)
    /\ strength = 0
    /\ smeared = Flat(0, 0, 1, 0)
    /\ smear_pc = "idle"

XfIdle ==
    /\ glitch_frames = <<>>
    /\ num_transition_frames = 0
    /\ xf_i = 0
    /\ smoothed_frames = <<>>
    /\ xf_pc = "idle"

CanvasLocalsInit ==
    /\ cv_dirs = {}
    /\ cv_files = {}
    /\ cv_log = <<>>
    /\ DURATION = 0
    /\ resized_size = <<0, 0>>
    /\ crop_box = [left |-> 0, top |-> 0, right |-> 0, bottom |-> 0]
    /\ cropped_size = <<0, 0>>
    /\ glitch_imgs = <<>>
    /\ cv_smoothed = <<>>
    /\ gif_duration = 0
    /\ cv_result = None

CanvasIdle ==
    /\ input_exists = FALSE
    /\ source_size = <<0, 0>>
    /\ ffmpeg = "ok"
    /\ fault = "none"
    /\ cv_pc = "idle"
    /\ CanvasLocalsInit

ArtLocalsInit ==
    /\ aw_dirs = {}
    /\ aw_files = {}
    /\ aw_log = <<>>
    /\ spec_size = <<0, 0>>
    /\ square = [left |-> 0, right |-> 0]
    /\ spectrogram_size = <<0, 0>>
    /\ identicon_size = <<0, 0>>
    /\ final_size = <<0, 0>>
    /\ position = <<0, 0>>
    /\ aw_result = None
    /\ aw_raised = ""

ArtIdle ==
    /\ audio_exists = FALSE
    /\ duration = 0
    /\ npx = "ok"
    /\ aw_pc = "idle"
    /\ raw_size = <<0, 0>>
    /\ ArtLocalsInit

\* ------------------------------------------------------- apply_smearing

SmearInit ==
    /\ image \in SmearInputs
    /\ strength \in SmearStrengths
    /\ smeared = image
    /\ smear_pc = "call"
    /\ XfIdle /\ CanvasIdle /\ ArtIdle

SmearCall ==
    /\ smear_pc = "call"
    /\ smeared' \in apply_smearing(image, strength)
    /\ smear_pc' = "returned"
    /\ UNCHANGED <<image, strength, xfVars, canvasVars, artVars>>

SmearNext == SmearCall

SpecSmear == SmearInit /\ [][SmearNext]_vars

\* ---------------------------------------------- create_crossfade_frames

XfInit ==
    /\ glitch_frames \in XfInputs
    /\ num_transition_frames \in 0..MaxK
    /\ xf_i = 0
    /\ smoothed_frames = <<>>
    /\ xf_pc = "loop"
    /\ SmearIdle /\ CanvasIdle /\ ArtIdle

\* One pass of the loop over the frames.
XfIterate ==
    /\ xf_pc = "loop"
    /\ xf_i < Len(glitch_frames)
    /\ \E piece \in CrossfadeIteration(glitch_frames, xf_i,
                                        num_transition_frames) :
           smoothed_frames' = smoothed_frames \o piece
    /\ xf_i' = xf_i + 1
    /\ UNCHANGED <<glitch_frames, num_transition_frames, xf_pc,
                   smearVars, canvasVars, artVars>>

\* return smoothed_frames
XfReturn ==
    /\ xf_pc = "loop"
    /\ xf_i >= Len(glitch_frames)
    /\ xf_pc' = "returned"
    /\ UNCHANGED <<glitch_frames, num_transition_frames, xf_i,
                   smoothed_frames, smearVars, canvasVars, artVars>>

XfNext == XfIterate \/ XfReturn

SpecCrossfade == XfInit /\ [][XfNext]_vars

\* ------------------------------------------------- create_spotify_canvas

\* Image sizes handed to the pipeline: every small size, and some usual ones.
SourceSizes ==
    ((1..MaxDim) \X (1..MaxDim))
    \cup { <<720, 1280>>, <<1000, 1000>>, <<1280, 720>>, <<3000, 3000>>,
           <<719, 1279>>, <<1080, 1920>>, <<51, 289>> }

CanvasInit ==
    /\ input_exists \in BOOLEAN
    /\ source_size \in SourceSizes
    /\ ffmpeg \in {"ok", "missing", "fails"}
    /\ fault \in {"none", "open", "glitch", "save"}
    /\ cv_pc = "start"
    /\ CanvasLocalsInit
    /\ SmearIdle /\ XfIdle /\ ArtIdle

canvasInputs == <<input_exists, source_size, ffmpeg, fault>>

\* except Exception as e: print(...); return None
CanvasExcept ==
    /\ cv_log' = Append(cv_log, "error")
    /\ cv_result' = None
    /\ cv_pc' = "done"

\* The existence check, the output directory and the timing constants.
CanvasStart ==
    /\ cv_pc = "start"
    /\ IF ~input_exists
       THEN /\ cv_log' = Append(cv_log, "missing")
            /\ cv_result' = None
            /\ cv_pc' = "done"
            /\ UNCHANGED <<cv_dirs, DURATION>>
       ELSE /\ cv_dirs' = cv_dirs \cup {"output_dir"}
            /\ cv_log' = Append(cv_log, "makedirs")
            /\ DURATION' = FrameDuration
            /\ cv_pc' = "open"
            /\ UNCHANGED cv_result
    /\ UNCHANGED <<canvasInputs, cv_files, resized_size, crop_box,
                   cropped_size, glitch_imgs, cv_smoothed, gif_duration,
                   smearVars, xfVars, artVars>>

\* Image.open, the resize and the centred crop.
CanvasResizeCrop ==
    /\ cv_pc = "open"
    /\ IF fault = "open"
       THEN /\ CanvasExcept
            /\ UNCHANGED <<resized_size, crop_box, cropped_size>>
       ELSE /\ resized_size' \in AspectFit(source_size[1], source_size[2])
            /\ crop_box' = CropBox(resized_size')
            /\ cropped_size' = CropSize(crop_box')
            /\ cv_log' = Append(cv_log, "crop")
            /\ cv_pc' = "glitch"
            /\ UNCHANGED cv_result
    /\ UNCHANGED <<canvasInputs, cv_dirs, cv_files, DURATION, glitch_imgs,
                   cv_smoothed, gif_duration, smearVars, xfVars, artVars>>

\* The glitch frames and their crossfade.
CanvasGlitch ==
    /\ cv_pc = "glitch"
    /\ IF fault = "glitch"
       THEN /\ CanvasExcept
            /\ UNCHANGED <<glitch_imgs, cv_smoothed>>
       ELSE /\ glitch_imgs' = GlitchImage(cropped_size, FRAMES)
            /\ cv_smoothed' \in
                   create_crossfade_frames(glitch_imgs', TRANSITION_FRAMES)
            /\ cv_log' = Append(cv_log, "glitch")
            /\ cv_pc' = "save"
            /\ UNCHANGED cv_result
    /\ UNCHANGED <<canvasInputs, cv_dirs, cv_files, DURATION, resized_size,
                   crop_box, cropped_size, gif_duration,
                   smearVars, xfVars, artVars>>

\* cropped_image.save(static_path); smoothed_frames[0].save(gif_path, ...,
\* duration=DURATION, loop=0)
CanvasSave ==
    /\ cv_pc = "save"
    /\ IF fault = "save"
       THEN /\ CanvasExcept
            /\ UNCHANGED <<cv_files, gif_duration>>
       ELSE /\ cv_files' = cv_files \cup {"static", "gif"}
            /\ gif_duration' = DURATION
            /\ cv_log' = Append(cv_log, "save")
            /\ cv_pc' = "encode"
            /\ UNCHANGED cv_result
    /\ UNCHANGED <<canvasInputs, cv_dirs, DURATION, resized_size, crop_box,
                   cropped_size, glitch_imgs, cv_smoothed,
                   smearVars, xfVars, artVars>>

\* if convert_gif_to_mp4(gif_path, mp4_path): return the three paths;
\* return static_path, gif_path.  An exception leaving the call would reach
\* the function's except clause.
CanvasEncode ==
    /\ cv_pc = "encode"
    /\ LET converted == convert_gif_to_mp4(ffmpeg)
       IN  /\ cv_log' = Append(cv_log, "ffmpeg")
           /\ cv_files' = IF ffmpeg = "ok" THEN cv_files \cup {"mp4"}
                          ELSE cv_files
           /\ cv_result' = IF converted = "True" THEN <<"static", "gif", "mp4">>
                           ELSE IF converted = "False" THEN <<"static", "gif">>
                           ELSE None
    /\ cv_pc' = "done"
    /\ UNCHANGED <<canvasInputs, cv_dirs, DURATION, resized_size, crop_box,
                   cropped_size, glitch_imgs, cv_smoothed, gif_duration,
                   smearVars, xfVars, artVars>>

CanvasNext ==
    \/ CanvasStart
    \/ CanvasResizeCrop
    \/ CanvasGlitch
    \/ CanvasSave
    \/ CanvasEncode

SpecCanvas == CanvasInit /\ [][CanvasNext]_vars

\* ----------------------------------------------- create_album_artwork_v7

artInputs == <<audio_exists, duration, npx>>

ArtInit ==
    /\ audio_exists \in BOOLEAN
    /\ duration \in 1..MaxDuration
    /\ npx \in {"ok", "fails"}
    /\ aw_pc = "start"
    /\ raw_size = <<0, 0>>
    /\ ArtLocalsInit
    /\ SmearIdle /\ XfIdle /\ CanvasIdle

\* os.makedirs(output_dir, exist_ok=True): the function's first effect.
ArtStart ==
    /\ aw_pc = "start"
    /\ aw_dirs' = aw_dirs \cup {"output_dir"}
    /\ aw_log' = Append(aw_log, "makedirs")
    /\ aw_pc' = "hash"
    /\ UNCHANGED <<artInputs, aw_files, raw_size, spec_size, square,
                   spectrogram_size, identicon_size, final_size, position,
                   aw_result, aw_raised, smearVars, xfVars, canvasVars>>

\* hash_audio_file: open(file_path, 'rb') raises when the file is missing,
\* and nothing catches it.
ArtHash ==
    /\ aw_pc = "hash"
    /\ IF ~audio_exists
       THEN /\ aw_raised' = "FileNotFoundError"
            /\ aw_pc' = "done"
            /\ UNCHANGED aw_log
       ELSE /\ aw_log' = Append(aw_log, "hash")
            /\ aw_pc' = "identicon"
            /\ UNCHANGED aw_raised
    /\ UNCHANGED <<artInputs, aw_dirs, aw_files, raw_size, spec_size, square,
                   spectrogram_size, identicon_size, final_size, position,
                   aw_result, smearVars, xfVars, canvasVars>>

\* create_identicon: subprocess.run([... '--size', '5000', ...], check=True)
\* and the load of the file it wrote.
ArtIdenticon ==
    /\ aw_pc = "identicon"
    /\ aw_log' = Append(aw_log, "npx")
    /\ IF npx # "ok"
       THEN /\ aw_raised' = "CalledProcessError"
            /\ aw_pc' = "done"
            /\ UNCHANGED <<aw_files, identicon_size>>
       ELSE /\ aw_files' = aw_files \cup {"output_dir/identicon.png"}
            /\ identicon_size' = <<IDENTICON_SIZE, IDENTICON_SIZE>>
            /\ aw_pc' = "spectrogram"
            /\ UNCHANGED aw_raised
    /\ UNCHANGED <<artInputs, aw_dirs, raw_size, spec_size, square,
                   spectrogram_size, final_size, position, aw_result,
                   smearVars, xfVars, canvasVars>>

\* create_improved_spectrogram from the rendered image on: the aspect check,
\* the (size-preserving) saturation, the save of the rectangle beside the
\* audio file, and the crop of the middle square.
SpectrogramCrop(raw) ==
    LET padded == ForceAspect(raw[1], raw[2])
        box    == MiddleSquare(padded[1], padded[2])
    IN  [spec_size |-> padded, square |-> box,
         cropped |-> <<box.right - box.left, padded[2]>>]

ArtSpectrogram ==
    /\ aw_pc = "spectrogram"
    /\ raw_size' = RenderSize(duration)
    /\ LET r == SpectrogramCrop(raw_size')
       IN  /\ spec_size' = r.spec_size
           /\ square' = r.square
           /\ spectrogram_size' = r.cropped
    /\ aw_files' = aw_files \cup {"audio_dir/rectangle_spectrogram.png"}
    /\ aw_log' = Append(aw_log, "spectrogram")
    /\ aw_pc' = "resize_spectrogram"
    /\ UNCHANGED <<artInputs, aw_dirs, identicon_size, final_size, position,
                   aw_result, aw_raised, smearVars, xfVars, canvasVars>>

\* os.rename of the rectangle, the save of the square, and
\* spectrogram = spectrogram.resize(identicon.size) with its alpha set.
ArtResizeSpectrogram ==
    /\ aw_pc = "resize_spectrogram"
    /\ aw_files' = (aw_files \ {"audio_dir/rectangle_spectrogram.png"})
                   \cup {"output_dir/rectangle_spectrogram.png",
                         "output_dir/spectrogram.png"}
    /\ spectrogram_size' = identicon_size
    /\ aw_pc' = "resize_identicon"
    /\ UNCHANGED <<artInputs, aw_dirs, aw_log, raw_size, spec_size, square,
                   identicon_size, final_size, position, aw_result, aw_raised,
                   smearVars, xfVars, canvasVars>>

\* identicon = resize_identicon(identicon); identicon.putalpha(255)
ArtResizeIdenticon ==
    /\ aw_pc = "resize_identicon"
    /\ identicon_size' = resize_identicon(identicon_size)
    /\ aw_pc' = "composite"
    /\ UNCHANGED <<artInputs, aw_dirs, aw_files, aw_log, raw_size, spec_size,
                   square, spectrogram_size, final_size, position, aw_result,
                   aw_raised, smearVars, xfVars, canvasVars>>

\* The black background of the spectrogram's size, the two alpha_composite
\* calls, the saves and the return.
ArtComposite ==
    /\ aw_pc = "composite"
    /\ final_size' = spectrogram_size
    /\ position' = <<(spectrogram_size[1] - identicon_size[1]) \div 2,
                     (spectrogram_size[2] - identicon_size[2]) \div 2>>
    /\ aw_files' = aw_files \cup {"output_dir/base_name.png",
                                  "output_dir/identicon.png"}
    /\ aw_log' = Append(aw_log, "composite")
    /\ aw_result' = <<"output_dir", "output_dir/base_name.png">>
    /\ aw_pc' = "done"
    /\ UNCHANGED <<artInputs, aw_dirs, raw_size, spec_size, square,
                   spectrogram_size, identicon_size, aw_raised,
                   smearVars, xfVars, canvasVars>>

ArtNext ==
    \/ ArtStart
    \/ ArtHash
    \/ ArtIdenticon
    \/ ArtSpectrogram
    \/ ArtResizeSpectrogram
    \/ ArtResizeIdenticon
    \/ ArtComposite

SpecArtwork == ArtInit /\ [][ArtNext]_vars

\* ------------------- create_improved_spectrogram on any rendered image

SquareInit ==
    /\ raw_size \in (1..MaxSide) \X (1..MaxSide)
    /\ aw_pc = "crop_call"
    /\ audio_exists = TRUE
    /\ duration = 0
    /\ npx = "ok"
    /\ ArtLocalsInit
    /\ SmearIdle /\ XfIdle /\ CanvasIdle

SquareCall ==
    /\ aw_pc = "crop_call"
    /\ LET r == SpectrogramCrop(raw_size)
       IN  /\ spec_size' = r.spec_size
           /\ square' = r.square
           /\ spectrogram_size' = r.cropped
    /\ aw_pc' = "crop_returned"
    /\ UNCHANGED <<artInputs, aw_dirs, aw_files, aw_log, raw_size,
                   identicon_size, final_size, position, aw_result, aw_raised,
                   smearVars, xfVars, canvasVars>>

SquareNext == SquareCall

SpecSquareCrop == SquareInit /\ [][SquareNext]_vars

\* ================================================================ claims

\* C2: create_crossfade_frames returns exactly L x (k + 1) frames for an
\* input of L frames and k transition frames, whatever the smears draw and
\* also when a smear raises and returns its input.
C2_CrossfadeLength ==
    xf_pc = "returned" =>
        Len(smoothed_frames) = Len(glitch_frames) * (num_transition_frames + 1)

\* A call on two frames with one transition each has returned; the smear of
\* the first frame gave its input back, the smear of the second changed it.
C2_Witness ==
    /\ xf_pc = "returned"
    /\ Len(glitch_frames) = 2
    /\ num_transition_frames = 1
    /\ Len(smoothed_frames) = 4
    /\ smoothed_frames[1] = glitch_frames[1]
    /\ smoothed_frames[3] # glitch_frames[2]

C9_BlackStaysBlack ==
    (smear_pc = "returned" /\ IsBlack(image)) =>
        /\ IsBlack(smeared)
        /\ SameShape(smeared, image)
        /\ WellFormed(smeared)

\* An all-black frame of 2 columns and 3 channels, tall enough for a streak,
\* has been smeared with a strength that allows one.
C9_Witness ==
    /\ smear_pc = "returned"
    /\ IsBlack(image)
    /\ image.size = <<2, MIN_STREAK + 1>>
    /\ image.bands = 3
    /\ strength = MIN_STREAK + 1

\* Whether the stage has run.
CanvasRan(stage) == \E n \in 1..Len(cv_log) : cv_log[n] = stage
ArtRan(stage) == \E n \in 1..Len(aw_log) : aw_log[n] = stage

\* C1: for every image of width >= 1 and height >= 1 the resized image is at
\* least 720 wide and 1280 high, the crop box lies within it, and the cropped
\* image is exactly 720 x 1280.
C1_AspectFitCrop ==
    CanvasRan("crop") =>
        /\ resized_size[1] >= TARGET_WIDTH
        /\ resized_size[2] >= TARGET_HEIGHT
        /\ 0 <= crop_box.left
        /\ 0 <= crop_box.top
        /\ crop_box.right <= resized_size[1]
        /\ crop_box.bottom <= resized_size[2]
        /\ cropped_size = <<TARGET_WIDTH, TARGET_HEIGHT>>

\* A 51 x 289 image (ratio 3/17) has been resized, to the height the rounded
\* floats give, and cropped.
C1_Witness ==
    /\ CanvasRan("crop")
    /\ source_size = <<51, 289>>
    /\ resized_size = <<720, 4079>>
    /\ crop_box.top = 1399

\* C4, as claimed for both pipelines, on the audio pipeline: when the input
\* file does not exist the pipeline reports it and returns None, and no
\* directory or file has been created and no later stage has run.
C4_MissingInputAborts ==
    (aw_pc = "done" /\ ~audio_exists) =>
        /\ aw_raised = ""
        /\ aw_result = None
        /\ aw_dirs = {}
        /\ aw_files = {}
        /\ aw_log = <<>>

\* C4 on the image pipeline, where it holds: a missing input ends the run
\* with None before anything is created or run.
C4_CanvasMissingInputAborts ==
    (cv_pc = "done" /\ ~input_exists) =>
        /\ cv_result = None
        /\ cv_dirs = {}
        /\ cv_files = {}
        /\ cv_log = <<"missing">>

\* C5: when the encoder fails (missing, or non-zero exit) the pipeline
\* returns the pair (static path, animated path), not None and not a triple;
\* and whenever the encoder is about to be invoked or has been, the static
\* image and the animated file are on disk.
C5_EncoderFailure ==
    /\ (cv_pc = "encode" \/ CanvasRan("ffmpeg")) =>
           {"static", "gif"} \subseteq cv_files
    /\ (cv_pc = "done" /\ CanvasRan("ffmpeg") /\ ffmpeg # "ok") =>
           cv_result = <<"static", "gif">>

\* A run whose encoder was missing has returned the pair.
C5_Witness ==
    /\ cv_pc = "done"
    /\ CanvasRan("ffmpeg")
    /\ ffmpeg = "missing"
    /\ cv_result = <<"static", "gif">>
    /\ cv_files = {"static", "gif"}

C7_MiddleSquare ==
    aw_pc = "crop_returned" =>
        LET h == raw_size[2]
            W == spec_size[1]
        IN  /\ square.right - square.left = h
            /\ spectrogram_size = <<h, h>>
            /\ square.left = (W - h) \div 2
            /\ square.right = square.left + h
            /\ 0 <= square.left
            /\ square.left < square.right
            /\ square.right <= W

\* An image narrower than it is tall has been padded and cut.
C7_Witness ==
    /\ aw_pc = "crop_returned"
    /\ raw_size = <<2, 5>>
    /\ spec_size = <<15, 5>>
    /\ square = [left |-> 5, right |-> 10]

\* C8 as claimed: when the layers are composited the spectrogram layer has
\* the width and height of the identicon layer (scaled down by 0.4).
C8_SameSizeAtComposite ==
    aw_pc = "composite" => spectrogram_size = identicon_size

\* C8 as amended: the spectrogram is resized to the identicon's size as
\* loaded, before the scale-down; when the layers are composited the
\* spectrogram layer is 5000 x 5000 and the identicon layer is the whole part
\* of 0.4 times that in each dimension.
C8_SpectrogramHasLoadedSize ==
    aw_pc = "composite" =>
        /\ spectrogram_size = <<IDENTICON_SIZE, IDENTICON_SIZE>>
        /\ \A n \in 1..2 :
              /\ 5 * identicon_size[n] <= 2 * spectrogram_size[n]
              /\ 2 * spectrogram_size[n] < 5 * (identicon_size[n] + 1)

\* The layers are about to be composited: 5000 x 5000 under 2000 x 2000.
C8_Witness ==
    /\ aw_pc = "composite"
    /\ spectrogram_size = <<5000, 5000>>
    /\ identicon_size = <<2000, 2000>>

\* C10: the square cut out of the spectrogram starts left of the end of the
\* rendered content (left < w0, the width as rendered before any padding),
\* so it is never made up of transparent padding alone.
C10_SquareHasContent ==
    ArtRan("spectrogram") => square.left < raw_size[1]

====
